---- MODULE Spec2Model ----
(***************************************************************************)
(* The two localization tools of skills/tuist-app-localization/scripts:    *)
(* validate_strings.py (validate_module) and sync_translations.py          *)
(* (sync_module), run over one module directory Resources/<lang>.lproj/    *)
(* Localizable.strings.  File contents are sequences of one-character      *)
(* strings; the two parse_strings_file functions and extract_placeholders  *)
(* are computed character by character as their regular expressions do.    *)
(***************************************************************************)
EXTENDS Integers, Sequences, FiniteSets, TLC

\* ------------------------------------------------------------------ bounds
\* Most writes of file content (a text fragment appended, a file created
\* in UTF-16 or with undecodable bytes) made to one module before the tools
\* run.
MaxWrites == 2

\* ------------------------------------------------------------- characters
DQ == "\""
BSL == "\\"
NL == "\n"

\* Python's \s and str.strip() whitespace, as far as the alphabet has it.
IsSpace(c) == c \in {" ", "\n", "\t"}

\* The printable ASCII characters, chr(32) .. chr(126), in code order
\* (chr(96), which a TLA+ string cannot hold, is written out).
Printable ==
    <<
       " ", "!", "\"", "#", "$", "%", "&", "'", "(", ")", "*", "+",
       ",", "-", ".", "/", "0", "1", "2", "3", "4", "5", "6", "7",
       "8", "9", ":", ";", "<", "=", ">", "?", "@", "A", "B", "C",
       "D", "E", "F", "G", "H", "I", "J", "K", "L", "M", "N", "O",
       "P", "Q", "R", "S", "T", "U", "V", "W", "X", "Y", "Z", "[",
       "\\", "]", "^", "_", "(backquote)", "a", "b", "c", "d", "e", "f", "g",
       "h", "i", "j", "k", "l", "m", "n", "o", "p", "q", "r", "s",
       "t", "u", "v", "w", "x", "y", "z", "{", "|", "}", "~"
    >>

\* ord(c), which sorted() compares strings by.
Ord(c) ==
    IF c = "\n" THEN 10
    ELSE IF c = "\t" THEN 9
    ELSE 31 + (CHOOSE i \in 1..Len(Printable) : Printable[i] = c)

\* s[from .. to], empty when to < from.
Slice(s, from, to) == IF to < from THEN << >> ELSE SubSeq(s, from, to)

\* s has the two characters c1 c2 at position i.
At2(s, i, c1, c2) == i + 1 <= Len(s) /\ s[i] = c1 /\ s[i + 1] = c2

\* ------------------------------------------------- the key/value pattern
\* "([^"\\]*(?:\\.[^"\\]*)*)" scanned from j, just after the opening quote:
\* the index of the closing quote, 0 when the pattern fails.  A backslash
\* takes the next character with it, unless that is a newline ("." without
\* DOTALL) or the text ends.
RECURSIVE QuotedEnd(_, _)
QuotedEnd(s, j) ==
    IF j > Len(s) THEN 0
    ELSE IF s[j] = DQ THEN j
    ELSE IF s[j] = BSL
         THEN IF j + 1 <= Len(s) /\ s[j + 1] # NL THEN QuotedEnd(s, j + 2) ELSE 0
    ELSE QuotedEnd(s, j + 1)

\* \s* from j: the first index that holds no whitespace.
RECURSIVE SkipSpace(_, _)
SkipSpace(s, j) ==
    IF j <= Len(s) /\ IsSpace(s[j]) THEN SkipSpace(s, j + 1) ELSE j

NoMatch == [ok |-> FALSE, key |-> << >>, value |-> << >>, next |-> 0]

\* The pattern "key"\s*=\s*"value"\s*; matched at position i of s.
MatchPair(s, i) ==
    IF ~(i <= Len(s) /\ s[i] = DQ) THEN NoMatch
    ELSE LET k == QuotedEnd(s, i + 1) IN
         IF k = 0 THEN NoMatch
         ELSE LET e == SkipSpace(s, k + 1) IN
              IF ~(e <= Len(s) /\ s[e] = "=") THEN NoMatch
              ELSE LET v == SkipSpace(s, e + 1) IN
                   IF ~(v <= Len(s) /\ s[v] = DQ) THEN NoMatch
                   ELSE LET w == QuotedEnd(s, v + 1) IN
                        IF w = 0 THEN NoMatch
                        ELSE LET t == SkipSpace(s, w + 1) IN
                             IF ~(t <= Len(s) /\ s[t] = ";") THEN NoMatch
                             ELSE [ok |-> TRUE,
                                   key |-> Slice(s, i + 1, k - 1),
                                   value |-> Slice(s, v + 1, w - 1),
                                   next |-> t + 1]

\* re.finditer(pattern, content): the (key, value) pairs of the
\* non-overlapping matches, left to right.
RECURSIVE FindPairs(_, _)
FindPairs(s, i) ==
    IF i > Len(s) THEN << >>
    ELSE LET m == MatchPair(s, i) IN
         IF m.ok THEN << <<m.key, m.value>> >> \o FindPairs(s, m.next)
         ELSE FindPairs(s, i + 1)

\* ------------------------------------------------------- dict operations
\* The keys of the dict built by assigning the pairs in order.
KeysOf(pairs) == {pairs[n][1] : n \in 1..Len(pairs)}

\* strings[key] = value for each pair in order: the LAST assignment stays.
DictOf(pairs) ==
    [k \in KeysOf(pairs) |->
        LET last == CHOOSE n \in 1..Len(pairs) :
                        /\ pairs[n][1] = k
                        /\ \A m \in (n + 1)..Len(pairs) : pairs[m][1] # k
        IN pairs[last][2]]

\* --------------------------------------------- validate_strings.py parser
\* The first index j >= from with "*/" at j, 0 when there is none.
RECURSIVE CloseAt(_, _)
CloseAt(s, j) ==
    IF j + 1 > Len(s) THEN 0
    ELSE IF At2(s, j, "*", "/") THEN j ELSE CloseAt(s, j + 1)

\* re.sub(r'/\*.*?\*/', '', content, flags=re.DOTALL)
RECURSIVE StripBlock(_, _)
StripBlock(s, i) ==
    IF i > Len(s) THEN << >>
    ELSE IF At2(s, i, "/", "*") /\ CloseAt(s, i + 2) # 0
         THEN StripBlock(s, CloseAt(s, i + 2) + 2)
         ELSE <<s[i]>> \o StripBlock(s, i + 1)

\* The index of the next newline from j, Len(s) + 1 when there is none.
RECURSIVE LineEnd(_, _)
LineEnd(s, j) ==
    IF j > Len(s) \/ s[j] = NL THEN j ELSE LineEnd(s, j + 1)

\* re.sub(r'//.*$', '', content, flags=re.MULTILINE)
RECURSIVE StripLine(_, _)
StripLine(s, i) ==
    IF i > Len(s) THEN << >>
    ELSE IF At2(s, i, "/", "/") THEN StripLine(s, LineEnd(s, i))
         ELSE <<s[i]>> \o StripLine(s, i + 1)

\* errors.append(f"Duplicate key: {key}") for every match whose key was
\* already assigned.
DuplicateErrors(pairs) ==
    LET dup(n) == \E m \in 1..(n - 1) : pairs[m][1] = pairs[n][1]
        F[n \in 0..Len(pairs)] ==
            IF n = 0 THEN << >>
            ELSE IF dup(n) THEN Append(F[n - 1], pairs[n][1]) ELSE F[n - 1]
    IN F[Len(pairs)]

\* validate_strings.parse_strings_file on a file: (strings, errors).
validate_parse_strings_file(file) ==
    IF file.enc = "bad"
    THEN [strings |-> << >>, errors |-> << <<"Cannot read file">> >>, raised |-> FALSE]
    ELSE LET pairs == FindPairs(StripLine(StripBlock(file.text, 1), 1), 1)
         IN [strings |-> DictOf(pairs),
             errors |-> DuplicateErrors(pairs),
             raised |-> FALSE]

\* ------------------------------------------- sync_translations.py parser
\* content.split('\n')
RECURSIVE SplitLines(_, _)
SplitLines(s, i) ==
    LET e == LineEnd(s, i) IN
    IF e > Len(s) THEN <<Slice(s, i, Len(s))>>
    ELSE <<Slice(s, i, e - 1)>> \o SplitLines(s, e + 1)

\* The last index that holds no whitespace, 0 when there is none.
RECURSIVE LastInk(_, _)
LastInk(s, j) ==
    IF j >= 1 /\ IsSpace(s[j]) THEN LastInk(s, j - 1) ELSE j

\* str.strip() and str.rstrip()
Strip(s) == Slice(s, SkipSpace(s, 1), LastInk(s, Len(s)))
RStrip(s) == Slice(s, 1, LastInk(s, Len(s)))

\* stripped.startswith('/*') or stripped.startswith('//')
IsCommentLine(stripped) ==
    At2(stripped, 1, "/", "*") \/ At2(stripped, 1, "/", "/")

\* The loop over the lines: one re.match at the start of each stripped line
\* that is no comment line.
RECURSIVE LinePairs(_, _)
LinePairs(lines, n) ==
    IF n > Len(lines) THEN << >>
    ELSE LET stripped == Strip(lines[n])
             m == MatchPair(stripped, 1)
         IN IF ~IsCommentLine(stripped) /\ m.ok
            THEN << <<m.key, m.value>> >> \o LinePairs(lines, n + 1)
            ELSE LinePairs(lines, n + 1)

\* sync_translations.parse_strings_file on a file: (strings, ordered_pairs);
\* the second read_text raises UnicodeDecodeError, which nothing catches.
sync_parse_strings_file(file) ==
    IF file.enc = "bad"
    THEN [strings |-> << >>, ordered_pairs |-> << >>, raised |-> TRUE]
    ELSE LET pairs == LinePairs(SplitLines(file.text, 1), 1)
         IN [strings |-> DictOf(pairs), ordered_pairs |-> pairs, raised |-> FALSE]

\* --------------------------------------------------- extract_placeholders
IsDigit(c) == c \in {"0", "1", "2", "3", "4", "5", "6", "7", "8", "9"}
IsFlag(c) == c \in {"-", "+", "0", " ", "#"}
IsConversion(c) ==
    c \in {"d", "i", "o", "u", "x", "X", "e", "E", "f", "F", "g", "G",
           "a", "A", "c", "s", "p", "n", "@", "%"}

\* \d* and [-+0 #]* from j: the first index past them.
RECURSIVE SkipDigits(_, _)
SkipDigits(s, j) ==
    IF j <= Len(s) /\ IsDigit(s[j]) THEN SkipDigits(s, j + 1) ELSE j

RECURSIVE SkipFlags(_, _)
SkipFlags(s, j) ==
    IF j <= Len(s) /\ IsFlag(s[j]) THEN SkipFlags(s, j + 1) ELSE j

\* The specifier pattern matched at the "%" at position i: the index of its
\* conversion character, 0 when the pattern fails there.
PlaceholderEnd(s, i) ==
    LET d == SkipDigits(s, i + 1)
        \* (?:\d+\$)?
        p1 == IF d > i + 1 /\ d <= Len(s) /\ s[d] = "$" THEN d + 1 ELSE i + 1
        \* [-+0 #]*(?:\d+)?
        p3 == SkipDigits(s, SkipFlags(s, p1))
        \* (?:\.\d+)?
        q == SkipDigits(s, p3 + 1)
        p4 == IF p3 <= Len(s) /\ s[p3] = "." /\ q > p3 + 1 THEN q ELSE p3
        conv(e) == e <= Len(s) /\ IsConversion(s[e])
        \* (?:hh|h|l|ll|L|z|j|t)? tried in this order, then left out
        one == p4 <= Len(s) /\ s[p4] \in {"h", "l", "L", "z", "j", "t"}
    IN IF At2(s, p4, "h", "h") /\ conv(p4 + 2) THEN p4 + 2
       ELSE IF one /\ conv(p4 + 1) THEN p4 + 1
       ELSE IF At2(s, p4, "l", "l") /\ conv(p4 + 2) THEN p4 + 2
       ELSE IF conv(p4) THEN p4
       ELSE 0

\* re.findall(pattern, text)
RECURSIVE FindPlaceholders(_, _)
FindPlaceholders(s, i) ==
    IF i > Len(s) THEN << >>
    ELSE IF s[i] = "%" /\ PlaceholderEnd(s, i) # 0
         THEN <<Slice(s, i, PlaceholderEnd(s, i))>>
                  \o FindPlaceholders(s, PlaceholderEnd(s, i) + 1)
         ELSE FindPlaceholders(s, i + 1)

extract_placeholders(text) == FindPlaceholders(text, 1)

\* ------------------------------------------------------------- sorted()
\* a < b for Python strings: the first differing character decides, a
\* proper prefix is smaller.
RECURSIVE StrLess(_, _)
StrLess(a, b) ==
    IF b = << >> THEN FALSE
    ELSE IF a = << >> THEN TRUE
    ELSE IF Ord(Head(a)) # Ord(Head(b)) THEN Ord(Head(a)) < Ord(Head(b))
    ELSE StrLess(Tail(a), Tail(b))

\* SortedList with the comparison turned around: the greatest key first.
RECURSIVE DescendingList(_)
DescendingList(S) ==
    IF S = {} THEN << >>
    ELSE LET greatest == CHOOSE x \in S : \A y \in S \ {x} : StrLess(y, x)
         IN <<greatest>> \o DescendingList(S \ {greatest})

\* sorted(list(S)) of a set of strings.
RECURSIVE SortedList(_)
SortedList(S) ==
    IF S = {} THEN << >>
    ELSE LET least == CHOOSE x \in S : \A y \in S \ {x} : StrLess(x, y)
         IN <<least>> \o SortedList(S \ {least})

\* sorted(xs) of a list of strings, repetitions kept.
RECURSIVE SortedSeq(_)
SortedSeq(xs) ==
    IF xs = << >> THEN << >>
    ELSE LET n == CHOOSE i \in 1..Len(xs) :
                      \A j \in 1..Len(xs) : ~StrLess(xs[j], xs[i])
         IN <<xs[n]>> \o SortedSeq(SubSeq(xs, 1, n - 1) \o SubSeq(xs, n + 1, Len(xs)))

\* ------------------------------------------------------- the file system
\* The <lang>.lproj directories a module may hold; sorted(lproj_dirs) lists
\* them in this order.
Langs == {"de", "en", "fr"}
LangOrder == <<"de", "en", "fr">>

\* Resources/<lang>.lproj: absent, present without Localizable.strings, or
\* holding the file: its bytes decode as UTF-8 ("utf8"), only as UTF-16
\* ("utf16"), or as neither ("bad"); text is the decoded content.
NoDir == [kind |-> "nodir", enc |-> "utf8", text |-> << >>]
NoFile == [kind |-> "nofile", enc |-> "utf8", text |-> << >>]
File(enc, text) == [kind |-> "file", enc |-> enc, text |-> text]

\* lproj_dir in resources_path.glob("*.lproj"); strings_file.exists()
HasDir(files, l) == files[l].kind # "nodir"
HasFile(files, l) == files[l].kind = "file"

\* ------------------------------------------------------------ sync_module
\* '/* TODO: Translate from English */'
TodoMarker ==
    <<"/", "*", " ", "T", "O", "D", "O", ":", " ", "T", "r", "a", "n", "s",
      "l", "a", "t", "e", " ", "f", "r", "o", "m", " ", "E", "n", "g", "l",
      "i", "s", "h", " ", "*", "/">>

\* Addition with the statement's closing semicolon forgotten.
AdditionUnterminated(key, value) ==
    <<NL>> \o TodoMarker \o <<NL, DQ>> \o key \o <<DQ, " ", "=", " ", DQ>>
        \o value \o <<DQ>>

\* f'\n/* TODO: Translate from English */\n"{key}" = "{primary_strings[key]}";'
Addition(key, value) ==
    <<NL>> \o TodoMarker \o <<NL, DQ>> \o key \o <<DQ, " ", "=", " ", DQ>>
        \o value \o <<DQ, ";">>

\* "\n".join(parts)
RECURSIVE Join(_)
Join(parts) ==
    IF parts = << >> THEN << >>
    ELSE IF Len(parts) = 1 THEN parts[1]
    ELSE parts[1] \o <<NL>> \o Join(Tail(parts))

\* content.rstrip() + "\n" + "\n".join(additions) + "\n", the additions in
\* sorted(missing) order.
NewContent(content, missing, primary_strings) ==
    LET keys == SortedList(missing)
        additions == [n \in 1..Len(keys) |-> Addition(keys[n], primary_strings[keys[n]])]
    IN RStrip(content) \o <<NL>> \o Join(additions) \o <<NL>>

\* round((n / d) * 100, 1), in tenths of a percent (no tie occurs below
\* sixteen primary keys).
RoundedPercent(n, d) == (2000 * n + d) \div (2 * d)

\* round((len(lang_keys) / len(primary_keys)) * 100, 1) if primary_keys else 100
CompletionPercentage(lang_keys, primary_keys) ==
    IF primary_keys # {}
    THEN RoundedPercent(Cardinality(lang_keys), Cardinality(primary_keys))
    ELSE 1000

\* report["languages"][lang] of a language whose file exists.
LanguageEntry(lang_keys, primary_keys) ==
    LET missing == primary_keys \ lang_keys
        extra == lang_keys \ primary_keys
    IN [status |-> IF missing = {} THEN "ok" ELSE "incomplete",
        total_keys |-> Cardinality(lang_keys),
        missing_count |-> Cardinality(missing),
        extra_count |-> Cardinality(extra),
        missing_keys |-> SortedList(missing),
        completion_percentage |-> CompletionPercentage(lang_keys, primary_keys)]

\* WritesFile without the test for missing keys.
WritesFileAlways(mode, missing) == mode = "sync"

\* The condition of the write: mode == "sync" and missing.
WritesFile(mode, missing) == mode = "sync" /\ missing # {}

\* Lines 118-142 for a language whose file parsed to lang_keys: its report
\* entry, and in sync mode with keys missing the file rewritten as UTF-8.
SyncParsed(lang, mode, primary_strings, acc, lang_keys) ==
    IF WritesFile(mode, DOMAIN primary_strings \ lang_keys)
    THEN [languages |-> acc.languages
                           @@ (lang :> LanguageEntry(lang_keys, DOMAIN primary_strings)),
          synced_files |-> Append(acc.synced_files, lang),
          files |-> [acc.files EXCEPT ![lang] =
                        File("utf8", NewContent(acc.files[lang].text,
                                                DOMAIN primary_strings \ lang_keys,
                                                primary_strings))],
          raised |-> FALSE]
    ELSE [acc EXCEPT !.languages =
             @ @@ (lang :> LanguageEntry(lang_keys, DOMAIN primary_strings))]

\* lang_strings, _ = parse_strings_file(strings_file): an undecodable file
\* raises, and nothing catches it.
SyncExisting(lang, mode, primary_strings, acc, parsed) ==
    IF parsed.raised THEN [acc EXCEPT !.raised = TRUE]
    ELSE SyncParsed(lang, mode, primary_strings, acc, DOMAIN parsed.strings)

\* One pass of "for lproj_dir in sorted(lproj_dirs)"; acc holds
\* report["languages"], synced_files and the files so far.
SyncLang(lang, mode, primary_strings, acc) ==
    IF lang = "en" \/ acc.files[lang].kind = "nodir" THEN acc
    ELSE IF acc.files[lang].kind = "nofile"
    THEN [acc EXCEPT !.languages = @ @@ (lang :>
             [status |-> "file_missing",
              missing_count |-> Cardinality(DOMAIN primary_strings)])]
    ELSE SyncExisting(lang, mode, primary_strings, acc,
                      sync_parse_strings_file(acc.files[lang]))

\* The loop from the n-th directory on.  An exception ends it, the files
\* written before it staying written.
RECURSIVE SyncLoop(_, _, _, _)
SyncLoop(n, mode, primary_strings, acc) ==
    IF n > Len(LangOrder) \/ acc.raised THEN acc
    ELSE SyncLoop(n + 1, mode, primary_strings,
                  SyncLang(LangOrder[n], mode, primary_strings, acc))

SyncError(msg, files) ==
    [kind |-> "error", error |-> msg, files |-> files]

\* The report and the files once the loop is over (kind "raised" when the
\* exception left it).
SyncReport(mode, primary_strings, done) ==
    IF done.raised THEN [kind |-> "raised", files |-> done.files]
    ELSE [kind |-> "report",
          primary_language |-> "en",
          total_keys |-> Cardinality(DOMAIN primary_strings),
          languages |-> done.languages,
          synced_files |-> IF mode = "sync" THEN done.synced_files ELSE << >>,
          files |-> done.files]

\* From "primary_strings, primary_ordered = parse_strings_file(...)" on.
SyncFromPrimary(files, mode, primary) ==
    IF primary.raised THEN [kind |-> "raised", files |-> files]
    ELSE SyncReport(mode, primary.strings,
                    SyncLoop(1, mode, primary.strings,
                             [languages |-> << >>, synced_files |-> << >>,
                              files |-> files, raised |-> FALSE]))

\* sync_module(module_path, mode): what it returns (kind "error" with the
\* message, kind "report" with the report, kind "raised" when an exception
\* leaves it) and the files it leaves on disk.
sync_module(res, files, mode) ==
    IF ~res THEN SyncError("Resources directory not found", files)
    ELSE IF \A l \in Langs : ~HasDir(files, l)
    THEN SyncError("No .lproj directories found", files)
    ELSE IF ~HasDir(files, "en") THEN SyncError("English (en.lproj) not found", files)
    ELSE IF ~HasFile(files, "en")
    THEN SyncError("English Localizable.strings not found", files)
    ELSE SyncFromPrimary(files, mode, sync_parse_strings_file(files["en"]))

\* -------------------------------------------------------- validate_module
\* The languages of order (the glob's listing) whose Localizable.strings
\* exists, in order: the keys of all_strings.
RECURSIVE WithFile(_, _)
WithFile(order, files) ==
    IF order = << >> THEN << >>
    ELSE IF HasFile(files, Head(order))
         THEN <<Head(order)>> \o WithFile(Tail(order), files)
         ELSE WithFile(Tail(order), files)

\* IsUntranslated without the test for a blank primary value.
IsUntranslatedAnyValue(lang_value, primary_value) == lang_value = primary_value

\* lang_value == primary_value and primary_value.strip()
IsUntranslated(lang_value, primary_value) ==
    lang_value = primary_value /\ Strip(primary_value) # << >>

\* sorted(primary_placeholders) != sorted(lang_placeholders)
PlaceholdersDiffer(primary_value, lang_value) ==
    SortedSeq(extract_placeholders(primary_value))
        # SortedSeq(extract_placeholders(lang_value))

\* The loop "for key in primary_keys & lang_keys": the placeholder_issues
\* (a list in the set's iteration order, kept here as the set of its
\* records) and the untranslated keys.
PlaceholderIssues(primary_strings, strings) ==
    {[key |-> k,
      primary |-> extract_placeholders(primary_strings[k]),
      translated |-> extract_placeholders(strings[k])] :
        k \in {c \in DOMAIN primary_strings \cap DOMAIN strings :
                  PlaceholdersDiffer(primary_strings[c], strings[c])}}

UntranslatedKeys(primary_strings, strings) ==
    {k \in DOMAIN primary_strings \cap DOMAIN strings :
        IsUntranslated(strings[k], primary_strings[k])}

\* if "en" not in all_strings: primary_lang = list(all_strings.keys())[0]
PrimaryLang(parsed_langs) ==
    IF \E n \in 1..Len(parsed_langs) : parsed_langs[n] = "en" THEN "en"
    ELSE parsed_langs[1]

\* sum(len(v) for v in d.values()), sizes[l] being len(d[l])
RECURSIVE SumOver(_, _)
SumOver(sizes, left) ==
    IF left = {} THEN 0
    ELSE LET l == CHOOSE x \in left : TRUE
         IN sizes[l] + SumOver(sizes, left \ {l})

\* One pass of "for lang, strings in all_strings.items()": what the loop
\* finds for a language other than the primary.
LanguageIssues(primary_strings, strings) ==
    [missing |-> SortedList(DOMAIN primary_strings \ DOMAIN strings),
     extra |-> SortedList(DOMAIN strings \ DOMAIN primary_strings),
     placeholder_issues |-> PlaceholderIssues(primary_strings, strings),
     untranslated |-> SortedList(UntranslatedKeys(primary_strings, strings))]

\* The dict that gets an entry d[lang] = found[lang] only "if found[lang]:".
NonEmpty(found, empty) ==
    [l \in {x \in DOMAIN found : found[x] # empty} |-> found[l]]

\* summary and issues, from what the loops found.
ValidateReport(parsed_langs, primary_lang, total_keys, found, errors) ==
    [kind |-> "report",
     summary |->
        [languages |-> parsed_langs,
         primary_language |-> primary_lang,
         total_keys |-> total_keys,
         issues_count |->
             SumOver([l \in DOMAIN found |-> Len(found[l].missing)], DOMAIN found)
             + SumOver([l \in DOMAIN found |-> Cardinality(found[l].placeholder_issues)],
                       DOMAIN found)],
     issues |->
        [missing_keys |-> NonEmpty([l \in DOMAIN found |-> found[l].missing], << >>),
         extra_keys |-> NonEmpty([l \in DOMAIN found |-> found[l].extra], << >>),
         placeholder_mismatches |->
             NonEmpty([l \in DOMAIN found |-> found[l].placeholder_issues], {}),
         untranslated |-> NonEmpty([l \in DOMAIN found |-> found[l].untranslated], << >>),
         parse_errors |-> NonEmpty(errors, << >>)]]

\* Lines 90-162, the primary language chosen.
ValidateAgainst(parsed_langs, parsed, primary_lang) ==
    ValidateReport(parsed_langs, primary_lang,
                   Cardinality(DOMAIN parsed[primary_lang].strings),
                   [l \in DOMAIN parsed \ {primary_lang} |->
                       LanguageIssues(parsed[primary_lang].strings, parsed[l].strings)],
                   [l \in DOMAIN parsed |-> parsed[l].errors])

\* Lines 73-93: the files that exist are parsed, in the listing's order.
ValidateFiles(parsed_langs, files) ==
    IF parsed_langs = << >>
    THEN [kind |-> "error", error |-> "No Localizable.strings files found"]
    ELSE ValidateAgainst(parsed_langs,
                         [l \in {parsed_langs[n] : n \in 1..Len(parsed_langs)} |->
                             validate_parse_strings_file(files[l])],
                         PrimaryLang(parsed_langs))

\* validate_module(module_path), the glob listing the *.lproj directories
\* in the given order: kind "error" with the message, or kind "report" with
\* summary and issues.
validate_module(res, files, order) ==
    IF ~res THEN [kind |-> "error", error |-> "Resources directory not found"]
    ELSE IF order = << >> THEN [kind |-> "error", error |-> "No .lproj directories found"]
    ELSE ValidateFiles(WithFile(order, files), files)

\* ------------------------------------------------------- the state machine
\* The text a write appends to a string-table file: statement lines, a
\* statement without line end whose value holds "//", a statement spanning
\* two lines, and the comment delimiters.
Fragments ==
    { <<DQ, "a", DQ, " ", "=", " ", DQ, "x", DQ, ";", NL>>,
      <<DQ, "a", DQ, " ", "=", " ", DQ, "y", DQ, ";", NL>>,
      <<DQ, "b", DQ, " ", "=", " ", DQ, "%", "d", DQ, ";", NL>>,
      <<DQ, "b", DQ, " ", "=", " ", DQ, "%", "@", DQ, ";", NL>>,
      <<DQ, "c", DQ, "=", DQ, "x", "/", "/", "y", DQ, ";">>,
      <<DQ, "b", DQ, NL, "=", " ", DQ, " ", DQ, ";", NL>>,
      <<"/", "*", NL>>,
      <<"*", "/", NL>>,
      <<"/", "/">> }

VARIABLES
    resources,  \* module_path / "Resources" exists
    fs,         \* fs[l]: the directory <l>.lproj and its Localizable.strings
    writes,     \* the content writes made so far
    out,        \* the last tool run: its operation, mode and result
    pre         \* fs as it was when the last tool run started

vars == <<resources, fs, writes, out, pre>>

\* The orders in which glob("*.lproj") may list the directories that exist.
Listings(files) ==
    LET dirs == {l \in Langs : HasDir(files, l)}
    IN {o \in UNION {[1..n -> dirs] : n \in {Cardinality(dirs)}} :
           \A i, j \in DOMAIN o : i # j => o[i] # o[j]}

Init ==
    /\ resources = FALSE
    /\ fs = [l \in Langs |-> NoDir]
    /\ writes = 0
    /\ out = [op |-> "none", mode |-> "none"]
    /\ pre = [l \in Langs |-> NoDir]

\* A behaviour lays the module out and then runs one tool on it; what a
\* later run does is computed from the files that run left.
Editing == out.op = "none"

MkResources ==
    /\ Editing /\ ~resources
    /\ resources' = TRUE
    /\ UNCHANGED <<fs, writes, out, pre>>

MkDir(l) ==
    /\ Editing /\ resources /\ fs[l].kind = "nodir"
    /\ fs' = [fs EXCEPT ![l] = NoFile]
    /\ UNCHANGED <<resources, writes, out, pre>>

\* An empty Localizable.strings.
CreateFile(l) ==
    /\ Editing /\ fs[l].kind = "nofile"
    /\ fs' = [fs EXCEPT ![l] = File("utf8", << >>)]
    /\ UNCHANGED <<resources, writes, out, pre>>

\* A Localizable.strings saved as UTF-16 (Xcode's older default), or one
\* whose bytes decode under neither encoding.
CreateEncoded(l, enc) ==
    /\ Editing /\ fs[l].kind = "nofile" /\ writes < MaxWrites
    /\ fs' = [fs EXCEPT ![l] = File(enc, << >>)]
    /\ writes' = writes + 1
    /\ UNCHANGED <<resources, out, pre>>

AppendFragment(l, f) ==
    /\ Editing /\ fs[l].kind = "file" /\ fs[l].enc # "bad" /\ writes < MaxWrites
    /\ fs' = [fs EXCEPT ![l].text = @ \o f]
    /\ writes' = writes + 1
    /\ UNCHANGED <<resources, out, pre>>

\* python validate_strings.py <module_path>
Validate ==
    \E order \in Listings(fs) :
        /\ Editing
        /\ out' = [op |-> "validate", mode |-> "validate",
                   result |-> validate_module(resources, fs, order)]
        /\ pre' = fs
        /\ UNCHANGED <<resources, fs, writes>>

\* python sync_translations.py <module_path> [--report | --sync]
Sync(mode) ==
    LET r == sync_module(resources, fs, mode) IN
        /\ Editing
        /\ out' = [op |-> "sync", mode |-> mode, result |-> r]
        /\ fs' = r.files
        /\ pre' = fs
        /\ UNCHANGED <<resources, writes>>

Next ==
    \/ MkResources
    \/ \E l \in Langs : MkDir(l)
    \/ \E l \in Langs : CreateFile(l)
    \/ \E l \in Langs, enc \in {"utf16", "bad"} : CreateEncoded(l, enc)
    \/ \E l \in Langs, f \in Fragments : AppendFragment(l, f)
    \/ Validate
    \/ Sync("report")
    \/ Sync("sync")

Spec == Init /\ [][Next]_vars

\* ============================================================== properties
\* What the properties read off a state.
Ran == out.op # "none"
SyncDone == out.op = "sync" /\ out.result.kind = "report"
ValidateDone == out.op = "validate" /\ out.result.kind = "report"
Decodable(f) == f.kind = "file" /\ f.enc # "bad"
Elems(xs) == {xs[n] : n \in 1..Len(xs)}
Ascending(xs) == \A n \in 1..(Len(xs) - 1) : StrLess(xs[n], xs[n + 1])
Lookup(d, l, default) == IF l \in DOMAIN d THEN d[l] ELSE default

\* The key sets the two tools read from the files as they were when the
\* last run started.
ValidateKeys(l) == DOMAIN validate_parse_strings_file(pre[l]).strings
SyncKeys(l) == DOMAIN sync_parse_strings_file(pre[l]).strings

\* The matches the validator's scan finds in a file, in order.
ScannedPairs(f) == FindPairs(StripLine(StripBlock(f.text, 1), 1), 1)

\* The value of the first pair with key k.
FirstValue(pairs, k) ==
    pairs[CHOOSE n \in 1..Len(pairs) :
              pairs[n][1] = k /\ \A m \in 1..(n - 1) : pairs[m][1] # k][2]

\* C1: in every string-table file where a key occurs more than once, the
\* parser records a duplicate-key error for that key and the lookup mapping
\* keeps the value of the key's first occurrence.
C1_FirstOccurrenceKept ==
    \A l \in Langs :
        Decodable(fs[l]) =>
            LET pairs == ScannedPairs(fs[l])
                parsed == validate_parse_strings_file(fs[l])
            IN \A n \in 1..Len(pairs) :
                   (\E m \in 1..(n - 1) : pairs[m][1] = pairs[n][1]) =>
                       /\ pairs[n][1] \in Elems(parsed.errors)
                       /\ parsed.strings[pairs[n][1]] = FirstValue(pairs, pairs[n][1])

C3_OnlyIncompleteFilesWritten ==
    Ran =>
        \A l \in Langs :
            /\ fs[l].kind = pre[l].kind
            /\ fs[l] # pre[l] =>
                   /\ out.op = "sync" /\ out.mode = "sync"
                   /\ l # "en"
                   /\ HasFile(pre, l)
                   /\ Decodable(pre["en"]) /\ Decodable(pre[l])
                   /\ SyncKeys("en") \ SyncKeys(l) # {}

\* A sync-mode run that rewrote one language and left a complete one alone.
C3_Witness ==
    /\ SyncDone /\ out.mode = "sync"
    /\ \E l, c \in Langs \ {"en"} :
           /\ fs[l] # pre[l]
           /\ HasFile(pre, c) /\ SyncKeys(c) # {}
           /\ out.result.languages[c].status = "ok"
           /\ fs[c] = pre[c]

\* C4: the completion percentage reported for a language with a parsed
\* table is 100 * |language keys & primary keys| / |primary keys| (100 when
\* the primary has no key), and so never above 100.
C4_CompletionIsCoverage ==
    SyncDone =>
        \A l \in Langs \ {"en"} :
            HasFile(pre, l) =>
                /\ out.result.languages[l].completion_percentage <= 1000
                /\ out.result.languages[l].completion_percentage =
                       IF SyncKeys("en") = {} THEN 1000
                       ELSE RoundedPercent(Cardinality(SyncKeys(l) \cap SyncKeys("en")),
                                           Cardinality(SyncKeys("en")))

\* What C5 says of a language whose table equals the primary's, but for the
\* untranslated keys.
IdenticalTablesAgree(l) ==
    /\ (/\ ValidateDone
        /\ l \in Elems(out.result.summary.languages)
        /\ l # out.result.summary.primary_language
        /\ validate_parse_strings_file(pre[l]).strings
               = validate_parse_strings_file(pre[out.result.summary.primary_language]).strings)
       => /\ l \notin DOMAIN out.result.issues.missing_keys
          /\ l \notin DOMAIN out.result.issues.extra_keys
          /\ l \notin DOMAIN out.result.issues.placeholder_mismatches
    /\ (/\ SyncDone
        /\ l # "en" /\ HasFile(pre, l)
        /\ sync_parse_strings_file(pre[l]).strings
               = sync_parse_strings_file(pre["en"]).strings)
       => /\ out.result.languages[l].missing_keys = << >>
          /\ out.result.languages[l].extra_count = 0
          /\ out.result.languages[l].completion_percentage = 1000

\* The validator ran and language l holds the same table as the primary.
SameTableValidated(l) ==
    /\ ValidateDone
    /\ l \in Elems(out.result.summary.languages)
    /\ l # out.result.summary.primary_language
    /\ validate_parse_strings_file(pre[l]).strings
           = validate_parse_strings_file(pre[out.result.summary.primary_language]).strings

C6_MissingExtraAreDifferences ==
    /\ ValidateDone =>
           LET p == out.result.summary.primary_language IN
           \A l \in Elems(out.result.summary.languages) \ {p} :
               LET missing == Lookup(out.result.issues.missing_keys, l, << >>)
                   extra == Lookup(out.result.issues.extra_keys, l, << >>)
               IN /\ Elems(missing) = ValidateKeys(p) \ ValidateKeys(l)
                  /\ Elems(extra) = ValidateKeys(l) \ ValidateKeys(p)
                  /\ Ascending(missing) /\ Ascending(extra)
    /\ SyncDone =>
           \A l \in Langs \ {"en"} :
               HasFile(pre, l) =>
                   /\ Elems(out.result.languages[l].missing_keys)
                          = SyncKeys("en") \ SyncKeys(l)
                   /\ Ascending(out.result.languages[l].missing_keys)
                   /\ out.result.languages[l].missing_count
                          = Cardinality(SyncKeys("en") \ SyncKeys(l))
                   /\ out.result.languages[l].extra_count
                          = Cardinality(SyncKeys(l) \ SyncKeys("en"))

\* The validator listed two missing keys for a language, in another order
\* than the primary file holds them.
C6_Witness ==
    /\ ValidateDone
    /\ \E l \in DOMAIN out.result.issues.missing_keys :
           /\ Len(out.result.issues.missing_keys[l]) >= 2
           /\ ScannedPairs(pre[out.result.summary.primary_language])[1][1]
                  = out.result.issues.missing_keys[l][2]

\* C7: when the primary language en has no directory or no string-table
\* file, each tool ends with a single error result and no report; no other
\* language takes the primary's place.
C7_PrimaryRequired ==
    (Ran /\ ~HasFile(pre, "en")) => out.result.kind = "error"

\* C8: a non-primary language directory without string-table file appears
\* in each tool's report with all primary keys missing (file_missing, the
\* count being the primary's key count), and the run does not fail.
C8_MissingFileReported ==
    \A l \in Langs \ {"en"} :
        (Ran /\ HasFile(pre, "en") /\ Decodable(pre["en"]) /\ pre[l].kind = "nofile"
             /\ \A o \in Langs : pre[o].enc # "bad") =>
            /\ out.result.kind = "report"
            /\ out.op = "sync" =>
                   /\ l \in DOMAIN out.result.languages
                   /\ out.result.languages[l].status = "file_missing"
                   /\ out.result.languages[l].missing_count = out.result.total_keys
            /\ out.op = "validate" =>
                   Len(Lookup(out.result.issues.missing_keys, l, << >>))
                       = out.result.summary.total_keys

\* C9: when a non-primary language's file decodes under neither encoding,
\* the run goes on: each tool returns its report, which covers every other
\* language, and no exception reaches the caller.
C9_UndecodableFileTolerated ==
    (Ran /\ Decodable(pre["en"]) /\ \E l \in Langs \ {"en"} : pre[l].enc = "bad") =>
        /\ out.result.kind = "report"
        /\ out.op = "sync" =>
               \A l \in Langs \ {"en"} : Decodable(pre[l]) => l \in DOMAIN out.result.languages
        /\ out.op = "validate" =>
               \A l \in Langs : HasFile(pre, l) => l \in Elems(out.result.summary.languages)

\* C10: the two tools agree on what is missing: for the same files, en
\* present, the missing keys validate_module reports for a language with a
\* file are those sync_module reports.
C10_ToolsAgreeOnMissing ==
    (ValidateDone /\ Decodable(pre["en"]) /\ \A o \in Langs : pre[o].enc # "bad") =>
        LET synced == sync_module(resources, pre, "report") IN
        /\ synced.kind = "report"
        /\ \A l \in Langs \ {"en"} :
               HasFile(pre, l) =>
                   Lookup(out.result.issues.missing_keys, l, << >>)
                       = synced.languages[l].missing_keys

====
